---- MODULE Spec2Model ----
(***************************************************************************)
(* A model of src/src/lib.rs: the in-memory vector-space retrieval engine  *)
(* Model<T> (TF-IDF weighting, cosine ranking, queued incremental growth). *)
(*                                                                         *)
(* Texts are tuples of one-character strings.  f64 values are records      *)
(* [k, v]: k = "fin" with v the value in thousandths (fixed point), or     *)
(* k = "nan", "inf", "ninf" for the IEEE specials the code can produce.    *)
(* Zero is exact in this representation: a weight is Fin(0) exactly when   *)
(* the f64 is 0.0 (tf = 0, or log10(N/df) with N = df).                    *)
(***************************************************************************)
EXTENDS Integers, Sequences, FiniteSets, TLC

VARIABLES
    vector_length,        \* Model.vector_length
    document_weights,     \* Model.document_weights : rows of f64
    term_frequencies,     \* Model.term_frequencies : rows of usize
    document_frequency,   \* Model.document_frequency
    dictionary,           \* Model.dictionary : set of tokens
    index,                \* Model.index : token -> column id (0-based)
    documents,            \* Model.documents
    processing_regex,     \* Model.processing_regex : the characters the pattern matches
    queued_for_indexing,  \* Model.queued_for_indexing
    op,                   \* the last call made on the model: [name, arg]
    result,               \* what the last search returned (or how it panicked)
    pc                    \* "running", or "panicked" once a call has panicked

vars == <<vector_length, document_weights, term_frequencies, document_frequency,
          dictionary, index, documents, processing_regex, queued_for_indexing,
          op, result, pc>>

(***************************************************************************)
(* Bounds of the exploration.                                              *)
(***************************************************************************)
MaxInsert == 2     \* documents handed to one insert_docs
MaxDocs == 3       \* documents + queued documents, in total

(***************************************************************************)
(* Texts.                                                                  *)
(***************************************************************************)
T_empty == << >>
T_c == <<"c">>
T_z == <<"z">>
T_aab == <<"a", " ", "a", " ", "b">>
T_Abb == <<"A", " ", " ", "b", " ", "b", ".">>
T_Ab == <<"A", " ", " ", "b", ".">>

\* the corpora handed to construct, the documents handed to insert_docs,
\* and the queries handed to search
CorpusPool == {<< >>, <<T_c>>, <<T_aab>>, <<T_aab, T_Abb>>, <<T_aab, T_c>>, <<T_c, T_Abb>>}
InsertPool == {T_c, T_Abb}
QueryPool == {T_empty, T_c, T_z, T_Ab}
RegexPool == {{"."}}

SeqsUpTo(S, n) == UNION {[1..k -> S] : k \in 0..n}

\* let x = e in F(x), with e evaluated once
Bind(e, F(_)) == CHOOSE r \in {F(x) : x \in {e}} : TRUE

RECURSIVE Flatten(_)
Flatten(ss) == IF ss = << >> THEN << >> ELSE Head(ss) \o Flatten(Tail(ss))

Range(s) == {s[i] : i \in 1..Len(s)}

RECURSIVE SelectSeqBy(_, _)
SelectSeqBy(s, keep) ==
    IF s = << >> THEN << >>
    ELSE IF Head(s) \in keep THEN <<Head(s)>> \o SelectSeqBy(Tail(s), keep)
         ELSE SelectSeqBy(Tail(s), keep)

(***************************************************************************)
(* preprocess: regex replace_all, split(" "), to_lowercase, drop "" / " ". *)
(***************************************************************************)
\* the caller's capture function: a match is replaced by the empty string
capture(c) == << >>

replace_all(text, regex) ==
    Flatten([i \in 1..Len(text) |->
                IF text[i] \in regex THEN capture(text[i]) ELSE <<text[i]>>])

\* str::split(" "): the pieces between single spaces, empty pieces included
RECURSIVE split(_, _)
split(text, cur) ==
    IF text = << >> THEN <<cur>>
    ELSE IF Head(text) = " " THEN <<cur>> \o split(Tail(text), << >>)
         ELSE split(Tail(text), Append(cur, Head(text)))

to_lowercase_char(c) ==
    CASE c = "A" -> "a"
      [] c = "B" -> "b"
      [] c = "C" -> "c"
      [] OTHER -> c

to_lowercase(piece) == [i \in 1..Len(piece) |-> to_lowercase_char(piece[i])]

preprocess(doc, regex) ==
    LET pieces == split(replace_all(doc, regex), << >>)
        lowered == [i \in 1..Len(pieces) |-> to_lowercase(pieces[i])]
    IN  SelectSeqBy(lowered, Range(lowered) \ {<< >>, <<" ">>})

(***************************************************************************)
(* f64 arithmetic, in thousandths.                                         *)
(***************************************************************************)
Scale == 10 * 10 * 10

Fin(v) == [k |-> "fin", v |-> v]
NaN == [k |-> "nan", v |-> 0]
Inf == [k |-> "inf", v |-> 0]
NegInf == [k |-> "ninf", v |-> 0]

IsNaN(x) == x.k = "nan"
IsInfinite(x) == x.k \in {"inf", "ninf"}
IsZero(x) == x.k = "fin" /\ x.v = 0
Sign(x) == IF x.k = "ninf" \/ (x.k = "fin" /\ x.v < 0) THEN -1 ELSE 1
Signed(s) == IF s < 0 THEN NegInf ELSE Inf

FMul(x, y) ==
    IF IsNaN(x) \/ IsNaN(y) THEN NaN
    ELSE IF IsInfinite(x) \/ IsInfinite(y)
         THEN IF IsZero(x) \/ IsZero(y) THEN NaN ELSE Signed(Sign(x) * Sign(y))
         ELSE Fin((x.v * y.v) \div Scale)

FDiv(x, y) ==
    IF IsNaN(x) \/ IsNaN(y) THEN NaN
    ELSE IF IsInfinite(x)
         THEN IF IsInfinite(y) THEN NaN ELSE Signed(Sign(x) * Sign(y))
         ELSE IF IsInfinite(y) THEN Fin(0)
              ELSE IF y.v = 0
                   THEN IF x.v = 0 THEN NaN ELSE Signed(Sign(x))
                   ELSE Fin((x.v * Scale) \div y.v)

FAdd(x, y) ==
    IF IsNaN(x) \/ IsNaN(y) THEN NaN
    ELSE IF IsInfinite(x) /\ IsInfinite(y)
         THEN IF x.k = y.k THEN x ELSE NaN
         ELSE IF IsInfinite(x) THEN x
              ELSE IF IsInfinite(y) THEN y
                   ELSE Fin(x.v + y.v)

\* f64::partial_cmp(x, y) == Some(Less); None when either is NaN
FKey(x) == CASE x.k = "ninf" -> <<0, 0>> [] x.k = "fin" -> <<1, x.v>> [] OTHER -> <<2, 0>>
FLess(x, y) ==
    /\ ~IsNaN(x) /\ ~IsNaN(y)
    /\ \/ FKey(x)[1] < FKey(y)[1]
       \/ FKey(x)[1] = FKey(y)[1] /\ FKey(x)[2] < FKey(y)[2]

\* log10 of 1, 2, ... in thousandths
Log10Table == <<0, 301, 477, 602, 699, 778, 845, 903, 954, 1000, 1041, 1079>>

\* (num as f64 / den as f64).log10()
Log10Ratio(num, den) ==
    IF den = 0 THEN (IF num = 0 THEN NaN ELSE Inf)
    ELSE IF num = 0 THEN NegInf
         ELSE Fin(Log10Table[num] - Log10Table[den])

RECURSIVE SqrtSearch(_, _, _)
SqrtSearch(n, lo, hi) ==
    IF lo >= hi THEN lo
    ELSE LET mid == (lo + hi + 1) \div 2
         IN  IF mid * mid <= n THEN SqrtSearch(n, mid, hi) ELSE SqrtSearch(n, lo, mid - 1)

RECURSIVE SumSeq(_)
SumSeq(s) == IF s = << >> THEN 0 ELSE Head(s) + SumSeq(Tail(s))

(***************************************************************************)
(* The weighting functions.                                                *)
(***************************************************************************)
calc_idf(term_df, total_items) == Log10Ratio(total_items, term_df)

calc_tf_idf(term_frequency, idf) ==
    IF term_frequency = 0 THEN Fin(0)
    ELSE FMul(Fin(Scale + Log10Table[term_frequency]), idf)

calc_query_tf(term) == Fin(Scale + Log10Table[term])

calc_query_idf(num_docs, doc_freq) == Log10Ratio(num_docs, doc_freq)

\* sqrt of the sum of the squares; the squares are summed exactly (in
\* millionths), so the length is zero exactly when every element is zero
euclidean_len(v) ==
    IF \E i \in 1..Len(v) : IsNaN(v[i]) THEN NaN
    ELSE IF \E i \in 1..Len(v) : IsInfinite(v[i]) THEN Inf
         ELSE LET sq == SumSeq([i \in 1..Len(v) |-> v[i].v * v[i].v])
                  bound == SumSeq([i \in 1..Len(v) |-> IF v[i].v < 0 THEN -v[i].v ELSE v[i].v])
              IN  Fin(SqrtSearch(sq, 0, bound))

RECURSIVE FSum(_)
FSum(s) == IF s = << >> THEN Fin(0) ELSE FAdd(Head(s), FSum(Tail(s)))

\* doc[i] is read for every i of the query: a shorter doc row is an
\* out-of-range access, reported by sim_in_range
sim_in_range(query, doc) == Len(doc) >= Len(query)

sim(query, doc) ==
    Bind(euclidean_len(query), LAMBDA q_len :
    Bind(euclidean_len(doc), LAMBDA d_len :
    FSum([i \in 1..Len(query) |-> FMul(FDiv(query[i], q_len), FDiv(doc[i], d_len))])))

(***************************************************************************)
(* Term and document frequencies (the loops of construct and update_index).*)
(***************************************************************************)
Zeros(n) == [i \in 1..n |-> 0]

\* HashSet::iter().enumerate(): the iteration order of a HashSet is
\* unspecified (it depends on the per-set random hasher keys and on the
\* table's capacity), so any assignment of 0..n-1 to the members can result
enumerate_dictionary(dict) ==
    {f \in [dict -> 0..(Cardinality(dict) - 1)] :
        \A a, b \in dict : a # b => f[a] # f[b]}

\* the inner loop: one document's terms, counted into its row and into df
RECURSIVE count_terms(_, _, _, _)
count_terms(terms, row, df, idx) ==
    IF terms = << >> THEN <<row, df>>
    ELSE LET term_index == idx[Head(terms)] + 1
             df2 == IF row[term_index] = 0 THEN [df EXCEPT ![term_index] = @ + 1] ELSE df
             row2 == [row EXCEPT ![term_index] = @ + 1]
         IN  count_terms(Tail(terms), row2, df2, idx)

\* the outer loop: one fresh row per processed document
RECURSIVE count_documents(_, _, _, _)
count_documents(processed, vector_len, df, idx) ==
    IF processed = << >> THEN [tf |-> << >>, df |-> df]
    ELSE LET r == count_terms(Head(processed), Zeros(vector_len), df, idx)
             rest == count_documents(Tail(processed), vector_len, r[2], idx)
         IN  [tf |-> <<r[1]>> \o rest.tf, df |-> rest.df]

\* calculate_document_weights, as a function of the fields it reads
weights_of(tf, df, num_docs) ==
    [d \in 1..Len(tf) |->
        [i \in 1..Len(tf[d]) |-> calc_tf_idf(tf[d][i], calc_idf(df[i], num_docs))]]

\* construct: the fields of the new Model; order is the dictionary's iteration order
construct(docs, regex, order) ==
    LET processed == [i \in 1..Len(docs) |-> preprocess(docs[i], regex)]
        dict == Range(Flatten(processed))
        num_docs == Len(docs)
        vector_len == Cardinality(dict)
        counted == count_documents(processed, vector_len, Zeros(vector_len), order)
    IN  [vector_length |-> vector_len,
         queued_for_indexing |-> << >>,
         document_weights |-> weights_of(counted.tf, counted.df, num_docs),
         term_frequencies |-> counted.tf,
         document_frequency |-> counted.df,
         dictionary |-> dict,
         index |-> order,
         documents |-> docs]

(***************************************************************************)
(* search                                                                  *)
(***************************************************************************)
NoPanic == "none"
OutOfBounds == "index out of bounds"
UnwrapNone == "called Option::unwrap() on a None value"

Unit == [panic |-> NoPanic, out |-> << >>, order |-> << >>]
Panicked(why) == [panic |-> why, out |-> << >>, order |-> << >>]

\* the in-vocabulary tokens of the query, in order
query_items(self, query) ==
    SelectSeqBy(preprocess(query, self.processing_regex), DOMAIN self.index)

\* query_vec[index[item]] += 1 for every in-vocabulary item
query_vec_of(self, items) ==
    [k \in 1..self.vector_length |->
        Cardinality({p \in 1..Len(items) : self.index[items[p]] = k - 1})]

build_query_weights(self, query_vec) ==
    [i \in 1..Len(query_vec) |->
        IF query_vec[i] = 0 THEN Fin(0)
        ELSE FMul(calc_query_tf(query_vec[i]),
                  calc_query_idf(Len(self.documents), self.document_frequency[i]))]

\* vec.sort_by(|f, b| b.0.partial_cmp(&f.0).unwrap()): a stable sort, highest
\* score first; element i lands after every higher score and every equal
\* score that preceded it
sort_by(scores) ==
    LET n == Len(scores)
        Before(j, i) == FLess(scores[i], scores[j]) \/ (scores[j] = scores[i] /\ j < i)
        rank == [i \in 1..n |-> 1 + Cardinality({j \in 1..n : Before(j, i)})]
    IN  [r \in 1..n |-> CHOOSE i \in 1..n : rank[i] = r]

\* search(&self, query): the returned (document, score) pairs in out, the
\* document positions they come from in order; or the panic that ends the call
search(model, query) ==
    Bind(model, LAMBDA self :
    Bind(query_items(self, query), LAMBDA items :
    IF \E p \in 1..Len(items) : self.index[items[p]] >= self.vector_length
    THEN Panicked(OutOfBounds)                               \* query_vec[..] += 1
    ELSE
    Bind(query_vec_of(self, items), LAMBDA query_vec :
    IF \E i \in 1..Len(query_vec) : query_vec[i] # 0 /\ i > Len(self.document_frequency)
    THEN Panicked(OutOfBounds)                               \* self.document_frequency[i]
    ELSE
    Bind(build_query_weights(self, query_vec), LAMBDA query_weight :
    IF \E d \in 1..Len(self.document_weights) :
          ~sim_in_range(query_weight, self.document_weights[d])
    THEN Panicked(OutOfBounds)                               \* doc[i]
    ELSE
    Bind([d \in 1..Len(self.document_weights) |->
             sim(query_weight, self.document_weights[d])],
         LAMBDA scores :
    IF Len(scores) >= 2 /\ \E d \in 1..Len(scores) : IsNaN(scores[d])
    THEN Panicked(UnwrapNone)                                \* partial_cmp(..).unwrap()
    ELSE
    Bind(sort_by(scores), LAMBDA order :
    IF \E r \in 1..Len(order) : order[r] > Len(self.documents)
    THEN Panicked(OutOfBounds)                               \* self.documents[item.1]
    ELSE [panic |-> NoPanic,
          out |-> [r \in 1..Len(order) |-> <<self.documents[order[r]], scores[order[r]]>>],
          order |-> order]))))))

(***************************************************************************)
(* The state machine.                                                      *)
(***************************************************************************)
Call(name, arg) == [name |-> name, arg |-> arg]

\* the fields of the Model that search reads
Self ==
    [vector_length |-> vector_length,
     document_weights |-> document_weights,
     document_frequency |-> document_frequency,
     index |-> index,
     documents |-> documents,
     processing_regex |-> processing_regex]

\* Model::construct(documents, capture, processing_regex)
Init ==
    \E docs \in CorpusPool, regex \in RegexPool :
        LET dict == Range(Flatten([i \in 1..Len(docs) |-> preprocess(docs[i], regex)]))
        IN  \E order \in enumerate_dictionary(dict) :
                LET m == construct(docs, regex, order)
                IN  /\ vector_length = m.vector_length
                    /\ document_weights = m.document_weights
                    /\ term_frequencies = m.term_frequencies
                    /\ document_frequency = m.document_frequency
                    /\ dictionary = m.dictionary
                    /\ index = m.index
                    /\ documents = m.documents
                    /\ processing_regex = regex
                    /\ queued_for_indexing = m.queued_for_indexing
                    /\ op = Call("construct", docs)
                    /\ result = Unit
                    /\ pc = "running"

\* self.queued_for_indexing.extend(docs)
queue_replaced(queue, docs) == docs
queue_extend(queue, docs) == queue \o docs

insert_docs(docs) ==
    /\ pc = "running"
    /\ Len(documents) + Len(queued_for_indexing) + Len(docs) <= MaxDocs
    /\ queued_for_indexing' = queue_extend(queued_for_indexing, docs)
    /\ op' = Call("insert_docs", docs)
    /\ result' = Unit
    /\ UNCHANGED <<vector_length, document_weights, term_frequencies, document_frequency,
                   dictionary, index, documents, processing_regex, pc>>

\* self.documents.extend(self.queued_for_indexing.clone())
documents_replaced(docs, queued) == queued
documents_extend(docs, queued) == docs \o queued

\* the locals update_index computes after extending the dictionary: the new
\* width, and fresh rows and document frequencies for the queued documents
update_index_locals(processed, dict, idx) ==
    LET vector_len == Cardinality(dict)
        counted == count_documents(processed, vector_len, Zeros(vector_len), idx)
    IN  [vector_length |-> vector_len,
         term_frequencies |-> counted.tf,
         document_frequency |-> counted.df,
         summed |-> [i \in 1..Len(document_frequency) |->
                        counted.df[i] + document_frequency[i]]]

update_index ==
    /\ pc = "running"
    /\ op' = Call("update_index", queued_for_indexing)
    /\ result' = Unit
    /\ IF queued_for_indexing = << >>
       THEN \* "No documents queued"
            UNCHANGED <<vector_length, document_weights, term_frequencies,
                        document_frequency, dictionary, index, documents,
                        processing_regex, queued_for_indexing, pc>>
       ELSE LET processed == [i \in 1..Len(queued_for_indexing) |->
                                 preprocess(queued_for_indexing[i], processing_regex)]
                tmp_dict == Range(Flatten(processed))
                dict == dictionary \cup tmp_dict
            IN  /\ documents' = documents_extend(documents, queued_for_indexing)
                /\ queued_for_indexing' = << >>              \* drain(..)
                /\ dictionary' = dict
                /\ \E idx \in enumerate_dictionary(dict) :
                      \* the locals are built and dropped when the function
                      \* returns: no field is assigned from them
                      LET locals == update_index_locals(processed, dict, idx)
                      IN  index' = idx
                /\ UNCHANGED <<vector_length, document_weights, term_frequencies,
                               document_frequency, processing_regex, pc>>

calculate_document_weights ==
    /\ pc = "running"
    /\ document_weights' = weights_of(term_frequencies, document_frequency, Len(documents))
    /\ op' = Call("calculate_document_weights", << >>)
    /\ result' = Unit
    /\ UNCHANGED <<vector_length, term_frequencies, document_frequency, dictionary,
                   index, documents, processing_regex, queued_for_indexing>>
    /\ UNCHANGED pc

\* a caller's search(query): &self, so no field changes; a panic ends the run
search_call(query) ==
    /\ pc = "running"
    /\ result' = search(Self, query)
    /\ pc' = IF result'.panic = NoPanic THEN "running" ELSE "panicked"
    /\ op' = Call("search", query)
    /\ UNCHANGED <<vector_length, document_weights, term_frequencies, document_frequency,
                   dictionary, index, documents, processing_regex, queued_for_indexing>>

Next ==
    \/ \E docs \in SeqsUpTo(InsertPool, MaxInsert) : insert_docs(docs)
    \/ update_index
    \/ calculate_document_weights
    \/ \E query \in QueryPool : search_call(query)

Spec == Init /\ [][Next]_vars

(***************************************************************************)
(* Helpers of the properties.                                              *)
(***************************************************************************)
Injective(s) == \A i, j \in 1..Len(s) : i # j => s[i] # s[j]

Occurrences(t, terms) == Cardinality({p \in 1..Len(terms) : terms[p] = t})

Processed(docs) == [i \in 1..Len(docs) |-> preprocess(docs[i], processing_regex)]

RECURSIVE Dedup(_, _)
Dedup(s, seen) ==
    IF s = << >> THEN << >>
    ELSE IF Head(s) \in seen THEN Dedup(Tail(s), seen)
         ELSE <<Head(s)>> \o Dedup(Tail(s), seen \cup {Head(s)})

\* ids in first-occurrence order of the tokens across the corpus
FirstOccurrenceIndex(docs) ==
    LET first == Dedup(Flatten(Processed(docs)), {})
    IN  [t \in Range(first) |-> (CHOOSE i \in 1..Len(first) : first[i] = t) - 1]

ZeroMagnitude(v) == \A i \in 1..Len(v) : IsZero(v[i])

QueryWeights(query) == build_query_weights(Self, query_vec_of(Self, query_items(Self, query)))

TypeOK ==
    /\ vector_length \in Nat
    /\ pc \in {"running", "panicked"}
    /\ DOMAIN index = dictionary
    /\ Len(term_frequencies) = Len(document_weights)
    /\ Len(documents) + Len(queued_for_indexing) <= MaxDocs
    /\ \A i \in 1..Len(document_frequency) :
          document_frequency[i] >= 1 /\ document_frequency[i] <= Len(documents)

(***************************************************************************)
(* The properties.                                                         *)
(***************************************************************************)

\* C1: a search that returns, returns one entry per corpus document: the
\* result is as long as documents, and every document position appears in it
\* exactly once.
C1_SearchReturnsWholeCorpus ==
    (op.name = "search" /\ result.panic = NoPanic) =>
        /\ Len(result.out) = Len(documents)
        /\ Range(result.order) = 1..Len(documents)
        /\ Injective(result.order)

\* C2: vector_length = |dictionary| = |index|, and index maps the dictionary's
\* tokens one-to-one onto the ids 0 .. vector_length - 1.
C2_IndexIsDenseBijection ==
    /\ vector_length = Cardinality(dictionary)
    /\ vector_length = Cardinality(DOMAIN index)
    /\ DOMAIN index = dictionary
    /\ {index[t] : t \in DOMAIN index} = 0..(vector_length - 1)
    /\ \A a, b \in DOMAIN index : a # b => index[a] # index[b]

\* C3: a merge of a non-empty queue keeps the id of every token already in the
\* index, and gives every new token an id at or above the old vector_length.
C3_MergePreservesColumnIds ==
    [][(op'.name = "update_index" /\ queued_for_indexing # << >>) =>
          /\ \A t \in DOMAIN index : t \in DOMAIN index' /\ index'[t] = index[t]
          /\ \A t \in (DOMAIN index') \ (DOMAIN index) : index'[t] >= vector_length]_vars

\* C4: term_frequencies has one row per corpus document, row i holding the
\* term counts of documents[i]; every row is vector_length wide, and
\* document_frequency is vector_length long.
C4_MatrixShape ==
    /\ Len(term_frequencies) = Len(documents)
    /\ \A i \in 1..Len(term_frequencies) : Len(term_frequencies[i]) = vector_length
    /\ Len(document_frequency) = vector_length
    /\ \A i \in 1..Len(documents) : \A t \in DOMAIN index :
          /\ index[t] < vector_length
          /\ term_frequencies[i][index[t] + 1]
                = Occurrences(t, preprocess(documents[i], processing_regex))

\* C5: for every term t of the dictionary, document_frequency[index[t]] is the
\* number of corpus documents, merged ones included, that contain t.
C5_DocumentFrequencyCounts ==
    \A t \in dictionary :
        /\ t \in DOMAIN index
        /\ index[t] < Len(document_frequency)
        /\ document_frequency[index[t] + 1]
              = Cardinality({i \in 1..Len(documents) :
                    t \in Range(preprocess(documents[i], processing_regex))})

\* C6: a merge of a non-empty queue Q leaves the queue empty (Queued to Idle)
\* and documents equal to the old documents followed by Q in queue order, so
\* every earlier document keeps its position.
C6_MergeDrainsQueueIntoCorpus ==
    [][(op'.name = "update_index" /\ queued_for_indexing # << >>) =>
          /\ queued_for_indexing' = << >>
          /\ documents' = documents \o queued_for_indexing
          /\ \A i \in 1..Len(documents) : documents'[i] = documents[i]]_vars

\* a merge of a non-empty queue has just run on a non-empty corpus
C6_Witness ==
    /\ op.name = "update_index"
    /\ op.arg # << >>
    /\ Len(documents) > Len(op.arg)
    /\ queued_for_indexing = << >>

\* C7: search never fails and never returns an undefined score: it does not
\* panic, no score is NaN or infinite, and a document scores 0 whenever the
\* query weight vector or the document's weight vector has zero magnitude.
C7_SearchScoresDefined ==
    op.name = "search" =>
        /\ result.panic = NoPanic
        /\ \A r \in 1..Len(result.out) :
              LET score == result.out[r][2]
                  doc == document_weights[result.order[r]]
              IN  /\ score.k = "fin"
                  /\ (ZeroMagnitude(doc) \/ ZeroMagnitude(QueryWeights(op.arg)))
                        => score = Fin(0)

\* C8: construct assigns the column ids deterministically, in first-occurrence
\* order of the tokens across the corpus.
C8_ConstructIdsInFirstOccurrenceOrder ==
    op.name = "construct" => index = FirstOccurrenceIndex(documents)

\* C9: insert_docs(docs) appends docs, in order, to the end of the queue (so a
\* non-empty docs leaves the engine Queued), changes no other field, and so
\* leaves every search result as it was.
C9_InsertIsPureQueuing ==
    [][op'.name = "insert_docs" =>
          /\ queued_for_indexing' = queued_for_indexing \o op'.arg
          /\ (op'.arg # << >> => queued_for_indexing' # << >>)
          /\ UNCHANGED <<documents, dictionary, index, vector_length,
                         term_frequencies, document_frequency, document_weights>>
          /\ \A q \in QueryPool : search(Self', q) = search(Self, q)]_vars

\* insert_docs has just appended two documents to a non-empty queue
C9_Witness ==
    /\ op.name = "insert_docs"
    /\ Len(op.arg) = 2
    /\ Len(queued_for_indexing) > Len(op.arg)
    /\ op.arg[1] # op.arg[2]

\* C10: search makes no out-of-range access: every id in index is below
\* vector_length, and document_frequency and every row of document_weights
\* have at least vector_length entries.
C10_SearchStaysInRange ==
    op.name = "search" =>
        /\ result.panic # OutOfBounds
        /\ \A t \in DOMAIN index : index[t] < vector_length
        /\ Len(document_frequency) >= vector_length
        /\ \A d \in 1..Len(document_weights) : Len(document_weights[d]) >= vector_length

====
